---- MODULE Spec2Model ----
(***************************************************************************)
(* Model of nationalities/fields.py: the Nationality value wrapper, the   *)
(* NationalityDescriptor that keeps the field's value in the instance     *)
(* __dict__, and the NationalityField hooks pre_save / get_prep_value.    *)
(*                                                                         *)
(* Python values are records tagged by kind:                               *)
(*   Null            None                                                  *)
(*   Str(s)          a (unicode) string                                    *)
(*   Wrap(c)         a Nationality object whose attribute code is c        *)
(*   Unset           no entry under the field's name in instance.__dict__  *)
(* Byte strings and unicode strings of the same ASCII text compare equal   *)
(* in the interpreter the code targets, so one string kind is kept.        *)
(***************************************************************************)
EXTENDS Integers, Sequences, FiniteSets, TLC

VARIABLES NATIONALITIES, dict, lastWritten, allWritesValid, last

vars == <<NATIONALITIES, dict, lastWritten, allWritesValid, last>>

(* ---------------------------- bounds ---------------------------------- *)

MaxTable == 2

(* ---------------------------- values ---------------------------------- *)

Null == [kind |-> "null"]

Unset == [kind |-> "unset"]

Str(s) == [kind |-> "str", s |-> s]

Wrap(c) == [kind |-> "nationality", code |-> c]

IsStr(v) == v.kind = "str"

IsWrap(v) == v.kind = "nationality"

TablePairs == {<<"HU", "Hungarian">>, <<"HU", "Magyar">>, <<"DE", "German">>}

CodeStrings == {"", "HU", "DE", "ZZ"}

CodeValues == {Null} \cup {Str(s) : s \in CodeStrings}

Wrappers == {Wrap(c) : c \in CodeValues}

Values == CodeValues \cup Wrappers

Instances == {"i1", "i2"}

NoInstance == "None"

RECURSIVE TablesOfLen(_)
TablesOfLen(n) ==
    IF n = 0 THEN {<<>>}
    ELSE {Append(t, p) : t \in TablesOfLen(n - 1), p \in TablePairs}

Tables == UNION {TablesOfLen(n) : n \in 0..MaxTable}

(* ------------------------- class Nationality -------------------------- *)

\* Python truth value of an object, as `or` tests it
Falsy(v) == v = Null \/ v = Str("")

\* the Python expression `a or b`
Or(a, b) == IF Falsy(a) THEN b ELSE a

RECURSIVE force_unicode(_)

\* __unicode__ without the `or` default: force_unicode(self.code)
UnicodeNoDefault(w) == force_unicode(w.code)

\* Nationality.__unicode__: force_unicode(self.code or '')
Unicode(w) == force_unicode(Or(w.code, Str("")))

\* force_unicode that does not dispatch to __unicode__ of an object
ForceUnicodeNoDispatch(v) ==
    CASE v.kind = "str" -> v
      [] v.kind = "null" -> Str("None")
      [] OTHER -> Str("Nationality object")

\* django.utils.encoding.force_unicode: a string is returned as it is, an
\* object with __unicode__ is converted by it, None becomes u'None'
force_unicode(v) ==
    CASE v.kind = "str" -> v
      [] v.kind = "null" -> Str("None")
      [] OTHER -> Unicode(v)

\* the builtin unicode(value) as get_prep_value calls it
unicode(v) ==
    CASE v.kind = "str" -> v
      [] v.kind = "null" -> Str("None")
      [] OTHER -> Unicode(v)

\* __eq__ comparing the string forms of both operands
EqBothCoerced(w, other) == Unicode(w) = force_unicode(other)

\* Nationality.__eq__: self.code == force_unicode(other)
Eq(w, other) == w.code = force_unicode(other)

\* Nationality.__ne__: not self.__eq__(other)
Ne(w, other) == ~ Eq(w, other)

\* the builtin hash on the objects a code can be: None has one fixed hash,
\* the empty string hashes to 0, distinct strings may collide
PyHash(c) ==
    CASE c = Null -> 7
      [] c = Str("") -> 0
      [] c = Str("HU") -> 1
      [] c = Str("DE") -> 2
      [] OTHER -> 1

\* Nationality.__hash__: hash(self.code)
Hash(w) == PyHash(w.code)

RECURSIVE NameLastFrom(_, _, _)
NameLastFrom(w, table, k) ==
    IF k = 0 THEN Null
    ELSE IF w.code = Str(table[k][1]) THEN Str(table[k][2])
    ELSE NameLastFrom(w, table, k - 1)

\* a name lookup in which the last matching entry wins
NameLastMatch(w, table) == NameLastFrom(w, table, Len(table))

RECURSIVE NameFrom(_, _, _)
\* the for loop of Nationality.name from entry k on
NameFrom(w, table, k) ==
    IF k > Len(table) THEN Null
    ELSE IF w.code = Str(table[k][1]) THEN Str(table[k][2])
    ELSE NameFrom(w, table, k + 1)

\* Nationality.name: linear scan of NATIONALITIES, None when nothing matches
Name(w, table) == NameFrom(w, table, 1)

(* --------------------- class NationalityDescriptor -------------------- *)

Result(exc, ret) == [exc |-> exc, ret |-> ret]

\* __get__ that hands out a wrapper also when there is no instance
DescriptorGetNoCheck(instance, d) ==
    IF instance = NoInstance THEN Result("", Wrap(Null))
    ELSE IF d[instance] = Unset THEN Result("KeyError", Null)
    ELSE Result("", Wrap(d[instance]))

\* NationalityDescriptor.__get__: AttributeError without an instance,
\* KeyError from instance.__dict__[name] when the name is absent
DescriptorGet(instance, d) ==
    IF instance = NoInstance THEN Result("AttributeError", Null)
    ELSE IF d[instance] = Unset THEN Result("KeyError", Null)
    ELSE Result("", Wrap(d[instance]))

\* __set__ that stores the value as it was given
DescriptorSetRaw(instance, value, d) == [d EXCEPT ![instance] = value]

\* NationalityDescriptor.__set__
DescriptorSet(instance, value, d) ==
    [d EXCEPT ![instance] = force_unicode(value)]

(* ----------------------- class NationalityField ----------------------- *)

\* get_prep_value without the None test
GetPrepValueNoNone(value) == unicode(value)

\* NationalityField.get_prep_value
get_prep_value(value) == IF value = Null THEN Null ELSE unicode(value)

\* pre_save that returns the attribute without get_prep_value
PreSaveRaw(instance, d) == DescriptorGet(instance, d)

\* NationalityField.pre_save: Field.pre_save is getattr(instance, attname),
\* which goes through the descriptor; its exception propagates
pre_save(instance, d) ==
    LET got == DescriptorGet(instance, d)
    IN  IF got.exc # "" THEN got
        ELSE Result("", get_prep_value(got.ret))

(* ------------------------------ state --------------------------------- *)

\* the record of the most recent call: its operation, operands and outcome
Call(op, inst, arg, other, res) ==
    [op |-> op, inst |-> inst, arg |-> arg, other |-> other,
     exc |-> res.exc, ret |-> res.ret,
     eq |-> FALSE, ne |-> FALSE, req |-> FALSE, hself |-> 0, hother |-> 0]

\* a written value the column is meant for: None, a code of the table or a
\* Nationality of such a code
InTable(c, table) == IsStr(c) /\ \E k \in 1..Len(table) : table[k][1] = c.s

ValidWrite(v, table) ==
    \/ v = Null
    \/ InTable(v, table)
    \/ IsWrap(v) /\ InTable(v.code, table)

Init ==
    /\ NATIONALITIES \in Tables
    /\ dict = [i \in Instances |-> Unset]
    /\ lastWritten = [i \in Instances |-> Unset]
    /\ allWritesValid = TRUE
    /\ last = Call("init", NoInstance, Null, Null, Result("", Null))

(* ----------------------------- actions -------------------------------- *)

\* instance.nationality = value
SetAttr(i, v) ==
    /\ dict' = DescriptorSet(i, v, dict)
    /\ lastWritten' = [lastWritten EXCEPT ![i] = v]
    /\ allWritesValid' = (allWritesValid /\ ValidWrite(v, NATIONALITIES))
    /\ last' = Call("set", i, v, Null, Result("", Null))
    /\ UNCHANGED NATIONALITIES

\* instance.nationality, or Model.nationality when inst is NoInstance
GetAttr(inst) ==
    /\ last' = Call("get", inst, Null, Null, DescriptorGet(inst, dict))
    /\ UNCHANGED <<NATIONALITIES, dict, lastWritten, allWritesValid>>

\* instance.nationality = instance.nationality
ReadWriteBack(i) ==
    LET got == DescriptorGet(i, dict)
    IN  /\ IF got.exc # ""
           THEN UNCHANGED <<dict, lastWritten, allWritesValid>>
           ELSE /\ dict' = DescriptorSet(i, got.ret, dict)
                /\ lastWritten' = [lastWritten EXCEPT ![i] = got.ret]
                /\ allWritesValid' =
                       (allWritesValid /\ ValidWrite(got.ret, NATIONALITIES))
        /\ last' = Call("readwrite", i, Null, Null, got)
        /\ UNCHANGED NATIONALITIES

\* field.pre_save(instance, add)
PreSave(i) ==
    /\ last' = Call("pre_save", i, Null, Null, pre_save(i, dict))
    /\ UNCHANGED <<NATIONALITIES, dict, lastWritten, allWritesValid>>

\* field.get_prep_value(value)
GetPrepValue(v) ==
    /\ last' = Call("get_prep_value", NoInstance, v, Null,
                    Result("", get_prep_value(v)))
    /\ UNCHANGED <<NATIONALITIES, dict, lastWritten, allWritesValid>>

\* unicode(Nationality(code))
ToUnicode(w) ==
    /\ last' = Call("unicode", NoInstance, w, Null, Result("", Unicode(w)))
    /\ UNCHANGED <<NATIONALITIES, dict, lastWritten, allWritesValid>>

\* Nationality(code).name
GetName(w) ==
    /\ last' = Call("name", NoInstance, w, Null,
                    Result("", Name(w, NATIONALITIES)))
    /\ UNCHANGED <<NATIONALITIES, dict, lastWritten, allWritesValid>>

\* w == other, w != other, hash(w) and, when other is a Nationality too,
\* other == w and hash(other)
Compare(w, other) ==
    /\ last' = [Call("compare", NoInstance, w, other, Result("", Null))
                   EXCEPT !.eq = Eq(w, other),
                          !.ne = Ne(w, other),
                          !.req = IF IsWrap(other) THEN Eq(other, w)
                                  ELSE FALSE,
                          !.hself = Hash(w),
                          !.hother = IF IsWrap(other) THEN Hash(other) ELSE 0]
    /\ UNCHANGED <<NATIONALITIES, dict, lastWritten, allWritesValid>>

\* the operations of the field and its descriptor on model instances
Next ==
    \/ \E i \in Instances, v \in Values : SetAttr(i, v)
    \/ \E inst \in Instances \cup {NoInstance} : GetAttr(inst)
    \/ \E i \in Instances : ReadWriteBack(i)
    \/ \E i \in Instances : PreSave(i)
    \/ \E v \in Values : GetPrepValue(v)

Spec == Init /\ [][Next]_vars

\* the operations of Nationality objects: no instance takes part
NextValue ==
    \/ \E w \in Wrappers : ToUnicode(w)
    \/ \E w \in Wrappers : GetName(w)
    \/ \E w \in Wrappers, other \in Values : Compare(w, other)

SpecValue == Init /\ [][NextValue]_vars

TypeOK ==
    /\ NATIONALITIES \in Tables
    /\ \A i \in Instances : dict[i] \in CodeValues \cup {Unset, Str("None")}
    /\ allWritesValid \in BOOLEAN

(* ------------------------------ claims -------------------------------- *)

\* the string form of a value, case by case: a string is its own string
\* form, None reads u'None', a Nationality reads its code, or the empty
\* string when the code is None or empty
StringFormOf(v) ==
    CASE v = Null -> Str("None")
      [] IsStr(v) -> v
      [] OTHER -> IF v.code = Null \/ v.code = Str("") THEN Str("")
                  ELSE v.code

\* C1: two Nationality objects whose codes are equal, both None included,
\* compare equal with ==, do not differ with != and have the same hash.
C1_EqualCodesCompareEqual ==
    (last.op = "compare" /\ IsWrap(last.other)
        /\ last.arg.code = last.other.code)
    => (last.eq /\ ~ last.ne /\ last.hself = last.hother)

\* the indices of the table entries whose code is c
Matches(c, table) ==
    {k \in 1..Len(table) : IsStr(c) /\ table[k][1] = c.s}

\* C2: Nationality(c).name is the name of the first entry of the table whose
\* code is c, it is None and raises nothing when there is no such entry, and
\* the lookup leaves the table as it was.
C2_NameIsFirstMatch ==
    [][last'.op = "name" =>
        LET M == Matches(last'.arg.code, NATIONALITIES)
        IN  /\ NATIONALITIES' = NATIONALITIES
            /\ last'.exc = ""
            /\ IF M = {} THEN last'.ret = Null
               ELSE \E k \in M :
                       /\ \A j \in M : k <= j
                       /\ last'.ret = Str(NATIONALITIES[k][2])]_vars

C2_Witness ==
    /\ last.op = "name"
    /\ Len(NATIONALITIES) >= 2
    /\ last.arg.code = Str(NATIONALITIES[1][1])
    /\ NATIONALITIES[2][1] = NATIONALITIES[1][1]
    /\ NATIONALITIES[2][2] # NATIONALITIES[1][2]
    /\ last.ret = Str(NATIONALITIES[1][2])

\* C3: once the attribute of an instance has been written, the instance
\* keeps a plain string, the string form of the value written last, and
\* reading the attribute gives a Nationality whose code is that string.
C3_StoredIsStringOfLastWrite ==
    /\ \A i \in Instances :
          lastWritten[i] # Unset =>
              /\ IsStr(dict[i])
              /\ dict[i] = StringFormOf(lastWritten[i])
    /\ (last.op = "get" /\ last.inst \in Instances
            /\ lastWritten[last.inst] # Unset)
       => (last.exc = "" /\ last.ret = Wrap(dict[last.inst]))

C3_Witness ==
    /\ last.op = "get"
    /\ last.inst \in Instances
    /\ lastWritten[last.inst] = Wrap(Str("HU"))
    /\ dict[last.inst] = Str("HU")
    /\ last.ret = Wrap(Str("HU"))

\* C4: as long as every value written is None, a code of the table or a
\* Nationality of such a code, the value an instance keeps and the value
\* pre_save returns are None or a code of the table, and a None that was
\* written is kept as None.
C4_StoredIsNullOrTableCode ==
    allWritesValid =>
        /\ \A i \in Instances :
              /\ dict[i] = Unset \/ dict[i] = Null
                    \/ InTable(dict[i], NATIONALITIES)
              /\ lastWritten[i] = Null => dict[i] = Null
        /\ (last.op = "pre_save" /\ last.exc = "")
           => (last.ret = Null \/ InTable(last.ret, NATIONALITIES))

\* C5: for an instance whose attribute has been written pre_save returns a
\* plain string, the string form of the value the instance keeps, and never
\* a Nationality; get_prep_value returns None for None and the string form
\* of any other value.
C5_PreSaveReturnsString ==
    /\ (last.op = "pre_save" /\ lastWritten[last.inst] # Unset)
       => /\ last.exc = ""
          /\ IsStr(last.ret)
          /\ last.ret = StringFormOf(dict[last.inst])
    /\ last.op = "get_prep_value"
       => /\ last.exc = ""
          /\ last.ret = IF last.arg = Null THEN Null
                        ELSE StringFormOf(last.arg)

C5_Witness ==
    /\ last.op = "pre_save"
    /\ lastWritten[last.inst] = Wrap(Str("HU"))
    /\ last.exc = ""
    /\ last.ret = Str("HU")

\* C6: the string conversion of a Nationality is its code when the code is a
\* non-empty string and the empty string when the code is None or empty; it
\* is never None and raises nothing.
C6_UnicodeIsCodeOrEmpty ==
    last.op = "unicode" =>
        /\ last.exc = ""
        /\ IsStr(last.ret)
        /\ (IsStr(last.arg.code) /\ last.arg.code # Str(""))
           => last.ret = last.arg.code
        /\ (last.arg.code = Null \/ last.arg.code = Str(""))
           => last.ret = Str("")
        /\ last.arg = Wrap(Str("HU")) => last.ret = Str("HU")

C6_Witness ==
    /\ last.op = "unicode"
    /\ last.arg = Wrap(Null)
    /\ last.ret = Str("")

\* C7: w == x is true exactly when the code of w equals the string form of
\* x, w != x is its negation, and the table takes no part: a Nationality
\* equals the plain string of its own code also when the table lacks it.
C7_EqComparesCodeToStringForm ==
    last.op = "compare" =>
        /\ last.eq <=> (last.arg.code = StringFormOf(last.other))
        /\ last.ne <=> ~ last.eq
        /\ (IsStr(last.other) /\ last.arg.code = last.other) => last.eq

C7_Witness ==
    /\ last.op = "compare"
    /\ last.arg = Wrap(Str("ZZ"))
    /\ last.other = Str("ZZ")
    /\ ~ InTable(Str("ZZ"), NATIONALITIES)
    /\ last.eq
    /\ ~ last.ne

\* C8: reading the attribute on the class, without an instance, ends in an
\* AttributeError and changes no instance's value; reading it on an instance
\* whose attribute has been written never ends in that error.
C8_ClassAccessRaises ==
    [][/\ (last'.op = "get" /\ last'.inst = NoInstance)
          => (last'.exc = "AttributeError" /\ dict' = dict)
       /\ (last'.op = "get" /\ last'.inst \in Instances
              /\ lastWritten[last'.inst] # Unset)
          => last'.exc # "AttributeError"]_vars

C8_Witness ==
    /\ last.op = "get"
    /\ last.inst = NoInstance
    /\ last.exc = "AttributeError"
    /\ \E i \in Instances : dict[i] = Str("HU")

C10_EqSymmetric ==
    (last.op = "compare" /\ IsWrap(last.other)) => (last.eq <=> last.req)

====
